---- MODULE Spec2Model ----
(***************************************************************************)
(* Model of the digital-elevation-model crate: the tiled ingestion of a    *)
(* raster into chunks (Dem::load_chunks_from_image) and the samplers of a  *)
(* chunk (Dem::get_elevation, Dem::sample_elevation_uv).                   *)
(*                                                                         *)
(* Numbers.  u32 values are modelled as naturals; every value the model    *)
(* computes stays far below 2^32, so no u32 operation of the code wraps    *)
(* inside the bounds.  An f16 value is represented exactly, as an integer  *)
(* count of 2^-24 (the smallest f16 step).  The unit-square coordinates u  *)
(* and v are the dyadic rationals un/UDen and vn/UDen, which f32 holds     *)
(* exactly; the bilinear blend is computed in exact arithmetic and its     *)
(* result is an integer count of 2^-24 / UDen^2.                           *)
(***************************************************************************)
EXTENDS Integers, Sequences, FiniteSets, TLC

\* Bounds of the model.
MaxWidth == 5

MaxHeight == 3

MaxChunk == 3

UBits == 1

MaxParWidth == 3

MaxParHeight == 2

\* Program constants.
U16Max == 65535

F16MantBits == 10

F32MantBits == 23

UDen == 2 ^ UBits
\* Numerators of the unit-square coordinates tried: -1/UDen .. 2.
UNums == (-1)..(2 * UDen)
\* Red channel values of the synthetic rasters: r(x, y) = base + step * (y * width + x).
ImageBases == {0, 3}

ImageStep == U16Max \div 15

MaxElevations == {1, 2}

VARIABLES
    decodable,     \* whether ImageReader::open / decode succeed
    width,         \* image.width()
    height,        \* image.height()
    image,         \* red channel of the decoded raster, by <<x, y>>
    chunk_width,   \* argument chunk_width
    chunk_height,  \* argument chunk_height
    profile,       \* argument profile: DemProfile
    chunks,        \* the local Vec<Dem>
    tile,          \* <<x, y>> of the allocation loops
    remaining,     \* the pixels enumerate_pixels has not yielded yet
    pc,            \* position inside load_chunks_from_image, or after it
    ret,           \* how load_chunks_from_image ended
    query          \* the sampler call made on a returned chunk, with its outcome

vars == <<decodable, width, height, image, chunk_width, chunk_height, profile,
          chunks, tile, remaining, pc, ret, query>>

----------------------------------------------------------------------------
\* Arithmetic helpers

\* u32::min
Min(a, b) == IF a < b THEN a ELSE b

\* u32::div_ceil
DivCeil(a, b) ==
    LET d == a \div b
        r == a % b
    IN IF r > 0 THEN d + 1 ELSE d

\* Round n / d to the nearest integer, ties to even (IEEE round-to-nearest).
RoundHalfEven(n, d) ==
    LET q == n \div d
        r == n % d
    IN IF 2 * r > d \/ (2 * r = d /\ q % 2 = 1) THEN q + 1 ELSE q

\* Number of significant bits of r, 1 <= r <= U16Max.
BitLen(r) == CHOOSE l \in 1..16 : 2 ^ (l - 1) <= r /\ r < 2 ^ l

\* `r as f32 / u16::MAX as f32`: the f32 quotient, as [m, e] meaning
\* m * 2^(e - 23) with 2^23 <= m <= 2^24.  r / 65535 = a * (1 + 1/65535) / 2^(23 - e)
\* for a = r * 2^(24 - BitLen(r)), so the 24-bit significand is a + round(a / 65535).
F32Quotient(r) ==
    LET l == BitLen(r)
        a == r * 2 ^ (F32MantBits + 1 - l)
    IN [m |-> a + RoundHalfEven(a, U16Max), e |-> l - 17]

\* f16::from_f32(..).to_bits() of a value in (0, 1]: round the 24-bit significand
\* to 11 bits (normal) or to a multiple of 2^-24 (subnormal), ties to even.
F16FromF32(f) ==
    IF f.e >= -14
    THEN (f.e + 15) * 2 ^ F16MantBits
         + RoundHalfEven(f.m, 2 ^ (F32MantBits - F16MantBits)) - 2 ^ F16MantBits
    ELSE RoundHalfEven(f.m, 2 ^ (-f.e - 1))

\* lib.rs:89-90
Quantize(r) == IF r = 0 THEN 0 ELSE F16FromF32(F32Quotient(r))

\* f16::from_bits(bits).to_f32(), exactly, in units of 2^-24.
F16ToF32(bits) ==
    LET e == bits \div 2 ^ F16MantBits
        m == bits % 2 ^ F16MantBits
    IN IF e = 0 THEN m ELSE (2 ^ F16MantBits + m) * 2 ^ (e - 1)

----------------------------------------------------------------------------
\* Dem accessors

Width(chunk) == chunk.width_range.end - chunk.width_range.start

WidthOffset(chunk) == chunk.width_range.start

Height(chunk) == chunk.height_range.end - chunk.height_range.start

HeightOffset(chunk) == chunk.height_range.start

----------------------------------------------------------------------------
\* load_chunks_from_image

Pixels(w, h) == (0..(w - 1)) \X (0..(h - 1))

NumChunksX == DivCeil(width, chunk_width)

NumChunksY == DivCeil(height, chunk_height)

\* WidthRange without the clamp to the raster's width.
WidthRangeUnclamped(x) == [start |-> x * chunk_width, end |-> (x + 1) * chunk_width]

WidthRange(x) == [start |-> x * chunk_width, end |-> Min((x + 1) * chunk_width, width)]

HeightRange(y) == [start |-> y * chunk_height, end |-> Min((y + 1) * chunk_height, height)]

\* NewDem sized by the nominal chunk size instead of the tile's own.
NewDemNominal(wr, hr) == [i \in 1..(chunk_width * chunk_height) |-> 0]

\* vec![0; (width_range.end - width_range.start) * (height_range.end - height_range.start)]
NewDem(wr, hr) == [i \in 1..((wr.end - wr.start) * (hr.end - hr.start)) |-> 0]

NewChunk(x, y) ==
    [width_range |-> WidthRange(x), height_range |-> HeightRange(y),
     profile |-> profile, dem |-> NewDem(WidthRange(x), HeightRange(y))]

\* ChunkIdx with the tiles counted column by column.
ChunkIdxColumnMajor(x, y) == (x \div chunk_width) * NumChunksY + (y \div chunk_height)

ChunkIdx(x, y) == (y \div chunk_height) * NumChunksX + (x \div chunk_width)

\* DemIdx with the chunk's height as the row stride.
DemIdxHeightStride(chunk, x, y) == (y % Height(chunk)) * Height(chunk) + (x % Width(chunk))

DemIdx(chunk, x, y) == (y % Height(chunk)) * Width(chunk) + (x % Width(chunk))

\* One iteration of the pixel loop on the chunk vector chs.  Both indexings
\* are bounds-checked by Vec and panic when out of range.
WritePixelInto(chs, p) ==
    LET ci == ChunkIdx(p[1], p[2])
    IN IF ci >= Len(chs)
       THEN [panic |-> TRUE, chunks |-> chs]
       ELSE LET chunk == chs[ci + 1]
                di == DemIdx(chunk, p[1], p[2])
            IN IF di >= Len(chunk.dem)
               THEN [panic |-> TRUE, chunks |-> chs]
               ELSE [panic |-> FALSE,
                     chunks |-> [chs EXCEPT ![ci + 1].dem[di + 1] = Quantize(image[p])]]

\* The pixel enumerate_pixels yields next: row by row, x fastest.
NextPixel(rem) ==
    CHOOSE p \in rem : \A q \in rem : p[2] < q[2] \/ (p[2] = q[2] /\ p[1] <= q[1])

NoQuery == [op |-> "none", chunk |-> 0, a |-> 0, b |-> 0,
            outcome |-> [kind |-> "none", value |-> 0]]

SyntheticImage(w, h, base) ==
    [p \in Pixels(w, h) |-> (base + ImageStep * (p[2] * w + p[1])) % (U16Max + 1)]

\* A profile dimension: the raster's own, or a different one.
ProfileDims(d, max) == {d, (d % max) + 1}

Init ==
    /\ decodable \in BOOLEAN
    /\ width \in 1..MaxWidth
    /\ height \in 1..MaxHeight
    /\ image \in {SyntheticImage(width, height, b) : b \in ImageBases}
    /\ chunk_width \in 1..MaxChunk
    /\ chunk_height \in 1..MaxChunk
    /\ profile \in [width : ProfileDims(width, MaxWidth),
                    height : ProfileDims(height, MaxHeight),
                    max_elevation : MaxElevations]
    /\ chunks = <<>>
    /\ tile = <<0, 0>>
    /\ remaining = {}
    /\ pc = "load"
    /\ ret = "pending"
    /\ query = NoQuery

\* lib.rs:53-63: open and decode (errors returned with `?`), then the two
\* assert_eq! on the dimensions, which panic.
Decode ==
    /\ pc = "load"
    /\ IF ~decodable
       THEN pc' = "failed" /\ ret' = "Err"
       ELSE IF width # profile.width \/ height # profile.height
            THEN pc' = "panicked" /\ ret' = "panic"
            ELSE pc' = "alloc" /\ ret' = ret
    /\ UNCHANGED <<decodable, width, height, image, chunk_width, chunk_height,
                   profile, chunks, tile, remaining, query>>

\* lib.rs:66-84: one iteration of the inner allocation loop (y outer, x inner).
PushChunk ==
    /\ pc = "alloc"
    /\ tile[2] < NumChunksY
    /\ chunks' = Append(chunks, NewChunk(tile[1], tile[2]))
    /\ tile' = IF tile[1] + 1 < NumChunksX THEN <<tile[1] + 1, tile[2]>>
                                           ELSE <<0, tile[2] + 1>>
    /\ UNCHANGED <<decodable, width, height, image, chunk_width, chunk_height,
                   profile, remaining, pc, ret, query>>

\* lib.rs:84-86: the allocation loops end, the pixel loop starts.
StartPixels ==
    /\ pc = "alloc"
    /\ tile[2] >= NumChunksY
    /\ pc' = "pixels"
    /\ remaining' = Pixels(width, height)
    /\ UNCHANGED <<decodable, width, height, image, chunk_width, chunk_height,
                   profile, chunks, tile, ret, query>>

\* The effect of one iteration of the pixel loop on pixel p.
WriteStep(p) ==
    LET w == WritePixelInto(chunks, p)
    IN /\ remaining' = remaining \ {p}
       /\ chunks' = w.chunks
       /\ IF w.panic THEN pc' = "panicked" /\ ret' = "panic"
                     ELSE pc' = pc /\ ret' = ret
       /\ UNCHANGED <<decodable, width, height, image, chunk_width, chunk_height,
                      profile, tile, query>>

\* lib.rs:86-106: one iteration of the pixel loop, in enumerate_pixels order.
WritePixel ==
    /\ pc = "pixels"
    /\ remaining # {}
    /\ WriteStep(NextPixel(remaining))

\* lib.rs:108-110
Return ==
    /\ pc = "pixels"
    /\ remaining = {}
    /\ pc' = "done"
    /\ ret' = "Ok"
    /\ UNCHANGED <<decodable, width, height, image, chunk_width, chunk_height,
                   profile, chunks, tile, remaining, query>>

----------------------------------------------------------------------------
\* Samplers of a chunk

\* y * self.width() + x
FlatIdx(chunk, x, y) == y * Width(chunk) + x

Panic == [kind |-> "panic", value |-> 0]

\* lib.rs:134-138.  The only bounds check is Vec's, on the flat index.
\* The value is in units of 2^-24.
GetElevation(chunk, x, y) ==
    LET idx == FlatIdx(chunk, x, y)
    IN IF idx >= Len(chunk.dem)
       THEN Panic
       ELSE [kind |-> "ok",
             value |-> F16ToF32(chunk.dem[idx + 1]) * chunk.profile.max_elevation]

\* f32::floor followed by `as u32`, which saturates: a negative value gives 0.
FloorToU32(n, d) == IF n < 0 THEN 0 ELSE n \div d

\* FxNum scaled by the width instead of the last column.
FxNumFullWidth(chunk, un) == un * Width(chunk)

\* fx = uv.x * (width - 1) and fy = uv.y * (height - 1), as numerators over UDen.
FxNum(chunk, un) == un * (Width(chunk) - 1)

FyNum(chunk, vn) == vn * (Height(chunk) - 1)

X0(chunk, un) == FloorToU32(FxNum(chunk, un), UDen)

Y0(chunk, vn) == FloorToU32(FyNum(chunk, vn), UDen)

\* X1 without the clamp to the last column.
X1Unclamped(chunk, un) == X0(chunk, un) + 1

X1(chunk, un) == Min(X0(chunk, un) + 1, Width(chunk) - 1)

Y1(chunk, vn) == Min(Y0(chunk, vn) + 1, Height(chunk) - 1)

\* tx = fx - x0 and ty = fy - y0, as numerators over UDen.
TxNum(chunk, un) == FxNum(chunk, un) - X0(chunk, un) * UDen

TyNum(chunk, vn) == FyNum(chunk, vn) - Y0(chunk, vn) * UDen

\* The four texels read, in the order v00, v10, v01, v11.
SampleCells(chunk, un, vn) ==
    << <<X0(chunk, un), Y0(chunk, vn)>>, <<X1(chunk, un), Y0(chunk, vn)>>,
       <<X0(chunk, un), Y1(chunk, vn)>>, <<X1(chunk, un), Y1(chunk, vn)>> >>

\* The closure i of sample_elevation_uv, in units of 2^-24.
Texel(chunk, cell) == F16ToF32(chunk.dem[FlatIdx(chunk, cell[1], cell[2]) + 1])

\* lib.rs:150-185.  The value is in units of 2^-24 / UDen^2.
SampleElevationUv(chunk, un, vn) ==
    LET cells == SampleCells(chunk, un, vn)
        tx == TxNum(chunk, un)
        ty == TyNum(chunk, vn)
    IN IF \E k \in 1..4 : FlatIdx(chunk, cells[k][1], cells[k][2]) >= Len(chunk.dem)
       THEN Panic
       ELSE LET top == Texel(chunk, cells[1]) * (UDen - tx) + Texel(chunk, cells[2]) * tx
                bottom == Texel(chunk, cells[3]) * (UDen - tx) + Texel(chunk, cells[4]) * tx
                bilinear == top * (UDen - ty) + bottom * ty
            IN [kind |-> "ok", value |-> bilinear * chunk.profile.max_elevation]

\* A caller takes one returned chunk and calls get_elevation on it.  The
\* samplers only read the chunk, so one call per behaviour is modelled.
CallGetElevation ==
    /\ pc = "done"
    /\ \E c \in 1..Len(chunks) :
         \E x \in 0..Width(chunks[c]), y \in 0..Height(chunks[c]) :
            query' = [op |-> "get_elevation", chunk |-> c, a |-> x, b |-> y,
                      outcome |-> GetElevation(chunks[c], x, y)]
    /\ pc' = "queried"
    /\ UNCHANGED <<decodable, width, height, image, chunk_width, chunk_height,
                   profile, chunks, tile, remaining, ret>>

\* A caller takes one returned chunk and calls sample_elevation_uv on it.
CallSampleElevationUv ==
    /\ pc = "done"
    /\ \E c \in 1..Len(chunks) :
         \E un \in UNums, vn \in UNums :
            query' = [op |-> "sample_elevation_uv", chunk |-> c, a |-> un, b |-> vn,
                      outcome |-> SampleElevationUv(chunks[c], un, vn)]
    /\ pc' = "queried"
    /\ UNCHANGED <<decodable, width, height, image, chunk_width, chunk_height,
                   profile, chunks, tile, remaining, ret>>

Next ==
    \/ Decode
    \/ PushChunk
    \/ StartPixels
    \/ WritePixel
    \/ Return
    \/ CallGetElevation
    \/ CallSampleElevationUv

Spec == Init /\ [][Next]_vars

----------------------------------------------------------------------------
\* The pixel loop with its iterations taken in any order.

InitAnyOrder ==
    /\ decodable = TRUE
    /\ width \in 1..MaxParWidth
    /\ height \in 1..MaxParHeight
    /\ image = SyntheticImage(width, height, 3)
    /\ chunk_width \in 1..MaxChunk
    /\ chunk_height \in 1..MaxChunk
    /\ profile = [width |-> width, height |-> height, max_elevation |-> 1]
    /\ chunks = <<>>
    /\ tile = <<0, 0>>
    /\ remaining = {}
    /\ pc = "load"
    /\ ret = "pending"
    /\ query = NoQuery

\* lib.rs:86-106 with the iteration order left open.
WritePixelAnyOrder ==
    /\ pc = "pixels"
    /\ \E p \in remaining : WriteStep(p)

NextAnyOrder ==
    \/ Decode
    \/ PushChunk
    \/ StartPixels
    \/ WritePixelAnyOrder
    \/ Return

SpecAnyOrder == InitAnyOrder /\ [][NextAnyOrder]_vars

\* The chunk vector the pixel loop of the code leaves, started on chs with the
\* pixels rem still to come, in enumerate_pixels order.
RECURSIVE IngestFrom(_, _)
IngestFrom(chs, rem) ==
    IF rem = {} THEN chs
    ELSE LET p == NextPixel(rem)
         IN IngestFrom(WritePixelInto(chs, p).chunks, rem \ {p})

----------------------------------------------------------------------------
\* Properties

\* The chunk vector is complete: the allocation loops have ended.
Allocated == pc \in {"pixels", "done", "queried"}
\* load_chunks_from_image has returned Ok(chunks).
Returned == pc \in {"done", "queried"}

InRect(chunk, p) ==
    /\ chunk.width_range.start <= p[1] /\ p[1] < chunk.width_range.end
    /\ chunk.height_range.start <= p[2] /\ p[2] < chunk.height_range.end

\* The positions (from 1) of the chunks whose rectangle contains pixel p.
Owners(p) == {i \in 1..Len(chunks) : InRect(chunks[i], p)}

\* ceil(a / b), from its definition: the least n with n * b >= a.
Ceil(a, b) == CHOOSE n \in 0..a : n * b >= a /\ \A m \in 0..(n - 1) : m * b < a

\* The value get_elevation owes for raster pixel p, in units of 2^-24.
PixelElevation(p) == F16ToF32(Quantize(image[p])) * profile.max_elevation

\* C1: once ingestion has returned, every raster pixel (x, y) is stored in the
\* chunk whose rectangle contains it at grid index
\* (y - y_start) * width + (x - x_start), and get_elevation(x - x_start,
\* y - y_start) on that chunk returns the pixel's value.
C1_PixelFidelity ==
    Returned =>
        \A p \in Pixels(width, height) :
            \A i \in Owners(p) :
                LET c == chunks[i]
                    lx == p[1] - WidthOffset(c)
                    ly == p[2] - HeightOffset(c)
                IN /\ c.dem[ly * Width(c) + lx + 1] = Quantize(image[p])
                   /\ GetElevation(c, lx, ly) = [kind |-> "ok", value |-> PixelElevation(p)]

\* C2: the rectangles of the allocated chunks partition the raster: every
\* pixel lies in exactly one, none is empty and none extends past the raster.
C2_TilesPartition ==
    Allocated =>
        /\ \A p \in Pixels(width, height) : Cardinality(Owners(p)) = 1
        /\ \A i \in 1..Len(chunks) :
              /\ chunks[i].width_range.start < chunks[i].width_range.end
              /\ chunks[i].width_range.end <= width
              /\ chunks[i].height_range.start < chunks[i].height_range.end
              /\ chunks[i].height_range.end <= height

C2_Witness ==
    /\ pc = "done"
    /\ Len(chunks) > 1
    /\ \E i \in 1..Len(chunks) : Width(chunks[i]) < chunk_width /\ WidthOffset(chunks[i]) > 0
    /\ \E i \in 1..Len(chunks) : Height(chunks[i]) < chunk_height /\ HeightOffset(chunks[i]) > 0

\* C3: there are ceil(W / cw) * ceil(H / ch) chunks, in row-major tile order
\* (the chunk at position ty * num_tiles_x + tx has offsets tx * cw and
\* ty * ch), and the pixel loop's chunk index selects the chunk whose
\* rectangle contains the pixel.
C3_RowMajorTiles ==
    LET nx == Ceil(width, chunk_width)
        ny == Ceil(height, chunk_height)
    IN /\ Allocated => Len(chunks) = nx * ny
       /\ \A i \in 1..Len(chunks) :
             /\ WidthOffset(chunks[i]) = ((i - 1) % nx) * chunk_width
             /\ HeightOffset(chunks[i]) = ((i - 1) \div nx) * chunk_height
       /\ Allocated =>
             \A p \in Pixels(width, height) :
                 /\ ChunkIdx(p[1], p[2]) < Len(chunks)
                 /\ InRect(chunks[ChunkIdx(p[1], p[2]) + 1], p)

C3_Witness ==
    /\ pc = "done"
    /\ NumChunksX > 1
    /\ NumChunksY > 1
    /\ NumChunksX # NumChunksY

DimensionMismatch == width # profile.width \/ height # profile.height

\* C4: when the decoded raster's dimensions differ from the profile's,
\* load_chunks_from_image returns an error value to its caller and no chunk.
C4_MismatchReturnsErr ==
    (decodable /\ DimensionMismatch /\ pc # "load") => (ret = "Err" /\ chunks = <<>>)

\* C5: get_elevation(x, y) with x >= width or y >= height fails; it never
\* returns an elevation.
C5_OutOfRangeFails ==
    (/\ query.op = "get_elevation"
     /\ \/ query.a >= Width(chunks[query.chunk])
        \/ query.b >= Height(chunks[query.chunk]))
    => query.outcome.kind = "panic"

InUnit(n) == 0 <= n /\ n <= UDen

\* C6: for (u, v) in the unit square the four texels sample_elevation_uv reads
\* are inside the chunk, and sampling at u = 1, v = 1 returns what
\* get_elevation(width - 1, height - 1) returns.
C6_EdgeClamping ==
    (query.op = "sample_elevation_uv" /\ InUnit(query.a) /\ InUnit(query.b)) =>
        LET c == chunks[query.chunk]
            cells == SampleCells(c, query.a, query.b)
            corner == GetElevation(c, Width(c) - 1, Height(c) - 1)
        IN /\ \A k \in 1..4 :
                 /\ 0 <= cells[k][1] /\ cells[k][1] < Width(c)
                 /\ 0 <= cells[k][2] /\ cells[k][2] < Height(c)
           /\ query.outcome.kind = "ok"
           /\ (query.a = UDen /\ query.b = UDen) =>
                 /\ corner.kind = "ok"
                 /\ query.outcome.value = corner.value * UDen * UDen

C6_Witness ==
    /\ query.op = "sample_elevation_uv"
    /\ query.a = UDen
    /\ query.b = UDen
    /\ Width(chunks[query.chunk]) > 1
    /\ Height(chunks[query.chunk]) > 1
    /\ query.outcome.kind = "ok"
    /\ query.outcome.value > 0

OutOfUnit(un, vn) == ~InUnit(un) \/ ~InUnit(vn)

ClampUnit(n) == IF n < 0 THEN 0 ELSE IF n > UDen THEN UDen ELSE n

\* C7: sample_elevation_uv treats every (u, v) outside the unit square by one
\* policy: either every such call fails, or every such call returns what
\* sampling at the nearest coordinate of the unit square returns.
C7_OnePolicy ==
    Returned =>
        \/ \A i \in 1..Len(chunks) : \A un \in UNums, vn \in UNums :
              OutOfUnit(un, vn) => SampleElevationUv(chunks[i], un, vn).kind = "panic"
        \/ \A i \in 1..Len(chunks) : \A un \in UNums, vn \in UNums :
              OutOfUnit(un, vn) =>
                  SampleElevationUv(chunks[i], un, vn)
                      = SampleElevationUv(chunks[i], ClampUnit(un), ClampUnit(vn))

\* C8: every chunk, from its creation on and through every pixel write, has
\* dem.len() = width() * height(), width() = min(chunk_width, W - width_offset())
\* and height() = min(chunk_height, H - height_offset()), both at least 1.
C8_ChunkShape ==
    \A i \in 1..Len(chunks) :
        LET c == chunks[i]
        IN /\ Len(c.dem) = Width(c) * Height(c)
           /\ Width(c) = Min(chunk_width, width - WidthOffset(c))
           /\ Height(c) = Min(chunk_height, height - HeightOffset(c))
           /\ Width(c) >= 1
           /\ Height(c) >= 1

C8_Witness ==
    /\ pc = "pixels"
    /\ remaining # {}
    /\ \E i \in 1..Len(chunks) :
          /\ Width(chunks[i]) < chunk_width
          /\ Height(chunks[i]) < chunk_height
          /\ \E k \in 1..Len(chunks[i].dem) : chunks[i].dem[k] # 0

\* C9: on a chunk of width 1, sample_elevation_uv at any u and at
\* v = y / (height - 1) reads column 0 only and returns what get_elevation(0, y)
\* returns; symmetrically for height 1; a 1 x 1 chunk returns its only cell.
C9_DegenerateAxis ==
    query.op = "sample_elevation_uv" =>
        LET c == chunks[query.chunk]
            un == query.a
            vn == query.b
        IN /\ Width(c) = 1 =>
                 /\ X0(c, un) = 0 /\ X1(c, un) = 0
                 /\ \A y \in 0..(Height(c) - 1) :
                       (InUnit(vn) /\ vn * (Height(c) - 1) = y * UDen) =>
                           /\ query.outcome.kind = "ok"
                           /\ query.outcome.value = GetElevation(c, 0, y).value * UDen * UDen
           /\ Height(c) = 1 =>
                 /\ Y0(c, vn) = 0 /\ Y1(c, vn) = 0
                 /\ \A x \in 0..(Width(c) - 1) :
                       (InUnit(un) /\ un * (Width(c) - 1) = x * UDen) =>
                           /\ query.outcome.kind = "ok"
                           /\ query.outcome.value = GetElevation(c, x, 0).value * UDen * UDen
           /\ (Width(c) = 1 /\ Height(c) = 1) =>
                 /\ query.outcome.kind = "ok"
                 /\ query.outcome.value = GetElevation(c, 0, 0).value * UDen * UDen

C9_Witness ==
    /\ query.op = "sample_elevation_uv"
    /\ Width(chunks[query.chunk]) = 1
    /\ Height(chunks[query.chunk]) > 2
    /\ query.a = UDen
    /\ query.b = UDen
    /\ query.outcome.kind = "ok"
    /\ query.outcome.value > 0

\* Where the pixel loop writes pixel p: <<chunk index, grid index>>.
Dest(p) == <<ChunkIdx(p[1], p[2]), DemIdx(chunks[ChunkIdx(p[1], p[2]) + 1], p[1], p[2])>>

\* The chunks as the allocation loops left them.
ZeroedChunks ==
    [i \in 1..Len(chunks) |->
        [chunks[i] EXCEPT !.dem = [k \in 1..Len(chunks[i].dem) |-> 0]]]

\* C10: the map from a pixel to its chunk and grid index is in bounds,
\* injective and onto the grid cells; with the pixels processed in any order a
\* cell holds its pixel's value exactly when that pixel has been processed,
\* and the chunks returned are those the code's own order produces.
C10_OrderIndependent ==
    pc \in {"pixels", "done"} =>
        /\ \A p \in Pixels(width, height) :
              /\ Dest(p)[1] < Len(chunks)
              /\ Dest(p)[2] < Len(chunks[Dest(p)[1] + 1].dem)
        /\ \A p, q \in Pixels(width, height) : p # q => Dest(p) # Dest(q)
        /\ \A i \in 1..Len(chunks) : \A k \in 1..Len(chunks[i].dem) :
              \E p \in Pixels(width, height) : Dest(p) = <<i - 1, k - 1>>
        /\ \A p \in Pixels(width, height) :
              chunks[Dest(p)[1] + 1].dem[Dest(p)[2] + 1]
                  = IF pc = "pixels" /\ p \in remaining THEN 0 ELSE Quantize(image[p])
        /\ pc = "done" => chunks = IngestFrom(ZeroedChunks, Pixels(width, height))

C10_Witness ==
    /\ pc = "pixels"
    /\ remaining = {<<0, 0>>}
    /\ Len(chunks) > 1
    /\ \E i \in 1..Len(chunks) : Width(chunks[i]) < chunk_width /\ WidthOffset(chunks[i]) > 0
====
